---- MODULE Spec2Model ----
(***************************************************************************)
(* Model of the n-tuple TD learning agents of src/agent.h:                 *)
(* weight_agent, four_tuple_agent and six_tuple_agent.                     *)
(*                                                                         *)
(* Numbers.  Weights, state values and the learning rate are floating      *)
(* point in the source.  The model keeps them as exact rationals with the  *)
(* fixed denominator Unit: the integer x stands for the real x / Unit.     *)
(* Rewards and the entries of episode_values / episode_rewards are C++     *)
(* ints and are kept as plain integers.  Floating point rounding of the    *)
(* weight entries themselves is not modelled.                              *)
(*                                                                         *)
(* Indices.  C++ containers are 0-based, TLA+ sequences 1-based: element i *)
(* of a C++ vector v is v[i + 1] here (operator At0).                      *)
(***************************************************************************)
EXTENDS Integers, Sequences, FiniteSets, TLC

VARIABLES
    kind,             \* which concrete class was constructed: "four" | "six"
    meta,             \* agent::meta, the configuration keys given to the constructor
    net,              \* weight_agent::net, the weight table shards
    alpha,            \* weight_agent::alpha, in 1/Unit
    episode_boards,   \* std::vector<board>
    episode_rewards,  \* std::vector<int>
    episode_values,   \* std::vector<int>
    b,                \* the caller's board, passed to take_action by const reference
    slides,           \* selection study only: the slide outcomes fixed up front
    call,             \* history: the last member function called and what it did
    life              \* history: position in the open/act/close lifecycle:
                      \*   phase  "fresh" (no open_episode yet), "open" or "closed"
                      \*   k      accepted moves since open_episode or construction
                      \*   moves, closes   accepted moves and close_episode calls so far

vars == <<kind, meta, net, alpha, episode_boards, episode_rewards,
          episode_values, b, slides, call, life>>

-----------------------------------------------------------------------------
(* Bounds of the model *)

\* accepted moves over the lifetime of one agent
MaxMoves == 2

\* close_episode calls over the lifetime of one agent
MaxEpisodes == 2

-----------------------------------------------------------------------------
(* Numbers *)

\* common denominator of the two built-in learning rates 0.0125 = 4/320
\* and 0.1/32 = 1/320
Unit == 320

\* conversion of a double to int on push_back into std::vector<int>:
\* truncation toward zero
ToInt(x) == IF x >= 0 THEN x \div Unit ELSE -((-x) \div Unit)

\* conversion of an int to double
ToDouble(n) == n * Unit

At0(seq, i) == seq[i + 1]

RECURSIVE Pow2(_)
Pow2(n) == IF n = 0 THEN 1 ELSE 2 * Pow2(n - 1)

\* x << n on int
Shl(x, n) == x * Pow2(n)

\* x | y on non-negative ints
RECURSIVE BitOr(_, _)
BitOr(x, y) ==
    IF x = 0 THEN y
    ELSE IF y = 0 THEN x
    ELSE (IF x % 2 = 1 \/ y % 2 = 1 THEN 1 ELSE 0) + 2 * BitOr(x \div 2, y \div 2)

-----------------------------------------------------------------------------
(* Board collaborator (board.h): a 4x4 grid of cell values 0..15, read by    *)
(* linear index 0..15 in row-major order.                                    *)

BoardA == <<1, 2, 0, 0,
            3, 0, 0, 0,
            0, 0, 0, 0,
            0, 0, 0, 0>>

BoardB == <<0, 0, 0, 1,
            0, 0, 3, 2,
            0, 0, 0, 0,
            0, 0, 0, 3>>

\* the afterstates and caller boards of the model
Boards == {BoardA, BoardB}

\* a default-constructed board
EmptyBoard == [p \in 1..16 |-> 0]

\* board::operator()(i)
Cell(bd, i) == bd[i + 1]

\* board::rotate_clockwise: cell (r, c) of the result is cell (3 - c, r)
rotate_clockwise(bd) ==
    [p \in 1..16 |->
        LET r == (p - 1) \div 4
            c == (p - 1) % 4
        IN  Cell(bd, 4 * (3 - c) + r)]

\* board::reflect_horizontal: cell (r, c) of the result is cell (r, 3 - c)
reflect_horizontal(bd) ==
    [p \in 1..16 |->
        LET r == (p - 1) \div 4
            c == (p - 1) % 4
        IN  Cell(bd, 4 * r + (3 - c))]

\* the illegal-move sentinel of board::slide
Illegal == -1

\* rewards a legal slide can return in the model
Rewards == {0, 1}

\* board::slide(op) on a copy of the caller's board: the reward and the
\* afterstate, or the sentinel with the board left as it was
SlideOutcomes(bd) ==
    {[reward |-> Illegal, after |-> bd]}
        \cup {[reward |-> r, after |-> a] : r \in Rewards, a \in Boards}

\* what slide returns for each of the four directions on one board
SlideInputs(bd) == [0..3 -> SlideOutcomes(bd)]

-----------------------------------------------------------------------------
(* Tuple addressing *)

\* four_tuple_agent::net_index with index1 shifted by 3 bits
net_index_NarrowShift(index0, index1, index2, index3) ==
    BitOr(BitOr(BitOr(index0, Shl(index1, 3)), Shl(index2, 8)), Shl(index3, 12))

\* four_tuple_agent::net_index
net_index(index0, index1, index2, index3) ==
    BitOr(BitOr(BitOr(index0, Shl(index1, 4)), Shl(index2, 8)), Shl(index3, 12))

\* six_tuple_agent::tuple_index
tuple_index ==
    <<  <<0, 1, 2, 3, 4, 5>>,
        <<4, 5, 6, 7, 8, 9>>,
        <<5, 6, 7, 9, 10, 11>>,
        <<9, 10, 11, 13, 14, 15>>  >>

\* the inner loop  for j in 0..5: index |= fb(tuple_index[i][j]) << (4*j)
RECURSIVE six_index_from(_, _, _, _)
six_index_from(fb, i, j, index) ==
    IF j = 6 THEN index
    ELSE six_index_from(fb, i, j + 1,
            BitOr(index, Shl(Cell(fb, At0(At0(tuple_index, i), j)), 4 * j)))

six_index(fb, i) == six_index_from(fb, i, 0, 0)

\* the board fb holds after k calls of rotate_clockwise
RECURSIVE Rotated(_, _)
Rotated(fb, k) == IF k = 0 THEN fb ELSE rotate_clockwise(Rotated(fb, k - 1))

\* number of shards each class addresses
NumShards(knd) == IF knd = "four" THEN 8 ELSE 32

\* four_tuple_agent::calculate_state_value: the (shard, index) pairs read,
\* in the order of the loop (row i, then column i)
four_value_reads(bd) ==
    [n \in 1..8 |->
        LET i == (n - 1) \div 2
            index_base == 4 * i
        IN  IF n % 2 = 1
            THEN <<i, net_index(Cell(bd, index_base), Cell(bd, index_base + 1),
                                Cell(bd, index_base + 2), Cell(bd, index_base + 3))>>
            ELSE <<4 + i, net_index(Cell(bd, i + 0), Cell(bd, i + 4),
                                    Cell(bd, i + 8), Cell(bd, i + 12))>>]

\* four_tuple_agent::update_net: the (shard, index) pairs written, in order
four_update_writes(bd) ==
    [n \in 1..8 |->
        LET i == (n - 1) \div 2
            index_base == 4 * i
        IN  IF n % 2 = 1
            THEN <<i, net_index(Cell(bd, index_base), Cell(bd, index_base + 1),
                                Cell(bd, index_base + 2), Cell(bd, index_base + 3))>>
            ELSE <<i + 4, net_index(Cell(bd, i + 0), Cell(bd, i + 4),
                                    Cell(bd, i + 8), Cell(bd, i + 12))>>]

\* six_tuple_agent::calculate_state_value without  fb = b;  before
\* fb.reflect_horizontal(): the board rotated three times is reflected
six_value_reads_ReflectRotated(bd) ==
    [n \in 1..32 |->
        LET i == (n - 1) % 4
            k == ((n - 1) \div 4) % 4
        IN  IF n <= 4 THEN <<i, six_index(bd, i)>>
            ELSE IF n <= 16 THEN <<k * 4 + i, six_index(Rotated(bd, k), i)>>
            ELSE IF n <= 20
            THEN <<16 + i, six_index(reflect_horizontal(Rotated(bd, 3)), i)>>
            ELSE <<16 + k * 4 + i,
                   six_index(Rotated(reflect_horizontal(Rotated(bd, 3)), k),
                             i)>>]

\* six_tuple_agent::calculate_state_value: the (shard, index) pairs read.
\* Entries 1..4: fb = b;  5..16: fb rotated k = 1..3 times, shard k*4+i;
\* 17..20: fb = b reflected, shard 16+i;  21..32: that rotated, shard 16+k*4+i
six_value_reads(bd) ==
    [n \in 1..32 |->
        LET i == (n - 1) % 4
            k == ((n - 1) \div 4) % 4
        IN  IF n <= 4 THEN <<i, six_index(bd, i)>>
            ELSE IF n <= 16 THEN <<k * 4 + i, six_index(Rotated(bd, k), i)>>
            ELSE IF n <= 20 THEN <<16 + i, six_index(reflect_horizontal(bd), i)>>
            ELSE <<16 + k * 4 + i,
                   six_index(Rotated(reflect_horizontal(bd), k), i)>>]

\* six_tuple_agent::update_net without  fb = b; fb.reflect_horizontal();
\* the second half goes on from the board the first half has rotated
six_update_writes_NoReflect(bd) ==
    [n \in 1..32 |->
        LET i == (n - 1) % 4
            k == ((n - 1) \div 4) % 4
        IN  IF n <= 4 THEN <<i, six_index(bd, i)>>
            ELSE IF n <= 16 THEN <<k * 4 + i, six_index(Rotated(bd, k), i)>>
            ELSE IF n <= 20 THEN <<16 + i, six_index(Rotated(bd, 3), i)>>
            ELSE <<16 + k * 4 + i, six_index(Rotated(bd, 3 + k), i)>>]

\* six_tuple_agent::update_net: the (shard, index) pairs written, in order
six_update_writes(bd) ==
    [n \in 1..32 |->
        LET i == (n - 1) % 4
            k == ((n - 1) \div 4) % 4
        IN  IF n <= 4 THEN <<i, six_index(bd, i)>>
            ELSE IF n <= 16 THEN <<k * 4 + i, six_index(Rotated(bd, k), i)>>
            ELSE IF n <= 20 THEN <<16 + i, six_index(reflect_horizontal(bd), i)>>
            ELSE <<16 + k * 4 + i,
                   six_index(Rotated(reflect_horizontal(bd), k), i)>>]

\* the sequence f[1], ..., f[n] with every element computed
RECURSIVE Computed(_, _)
Computed(f, n) == IF n = 0 THEN <<>> ELSE Append(Computed(f, n - 1), f[n])

\* the function bd |-> Computed(F(bd), n) on the boards of S
RECURSIVE TableOver(_, _, _)
TableOver(F(_), n, S) ==
    IF S = {} THEN <<>>
    ELSE LET bd == CHOOSE x \in S : TRUE
         IN  (bd :> Computed(F(bd), n)) @@ TableOver(F, n, S \ {bd})

\* the address sequences of the model's boards, computed once
FourReads == TableOver(four_value_reads, 8, Boards)
FourWrites == TableOver(four_update_writes, 8, Boards)
SixReads == TableOver(six_value_reads, 32, Boards)
SixWrites == TableOver(six_update_writes, 32, Boards)

\* The tables hold 2^16 or 2^24 entries per shard.  The model keeps, for
\* shard k, the entries some board of the model addresses in shard k.
AddressedPairs(knd) ==
    LET tabs == IF knd = "four" THEN {FourReads, FourWrites}
                ELSE {SixReads, SixWrites}
    IN  {t[bd][n] : t \in tabs, bd \in Boards, n \in 1..NumShards(knd)}

Tracked(knd, k) == {p[2] : p \in {q \in AddressedPairs(knd) : q[1] = k}}

\* net[k][index]
Weight(n, k, index) == At0(n, k).w[index]

-----------------------------------------------------------------------------
(* Value estimator and table update *)

\* the accumulation  state_value += net[shard][index]  over reads[from..]
RECURSIVE SumReads(_, _, _)
SumReads(n, reads, from) ==
    IF from > Len(reads) THEN 0
    ELSE Weight(n, reads[from][1], reads[from][2]) + SumReads(n, reads, from + 1)

\* how many of the statements  net[shard][index] += update_value  of one
\* update_net call, which writes the pairs of writes in turn, hit each pair
RECURSIVE HitsFrom(_, _)
HitsFrom(writes, from) ==
    IF from > Len(writes) THEN <<>>
    ELSE LET rest == HitsFrom(writes, from + 1)
             p == writes[from]
         IN  IF p \in DOMAIN rest
             THEN (p :> (rest[p] + 1)) @@ rest
             ELSE (p :> 1) @@ rest

\* the function bd |-> HitsFrom(t[bd], 1) on the boards of S
RECURSIVE HitsOver(_, _)
HitsOver(t, S) ==
    IF S = {} THEN <<>>
    ELSE LET bd == CHOOSE x \in S : TRUE
         IN  (bd :> HitsFrom(t[bd], 1)) @@ HitsOver(t, S \ {bd})

FourHits == HitsOver(FourWrites, Boards)
SixHits == HitsOver(SixWrites, Boards)

\* the tables after the statements  net[shard][index] += update_value  of
\* one update_net call, given how often it hits each pair
ApplyWrites(n, hits, update_value) ==
    [j \in 1..Len(n) |->
        [size |-> n[j].size,
         w |-> [a \in DOMAIN n[j].w |->
                    IF <<j - 1, a>> \in DOMAIN hits
                    THEN n[j].w[a] + update_value * hits[<<j - 1, a>>]
                    ELSE n[j].w[a]]]]

\* four_tuple_agent::calculate_state_value
four_calculate_state_value(n, bd) == SumReads(n, FourReads[bd], 1)

\* six_tuple_agent::calculate_state_value
six_calculate_state_value(n, bd) == SumReads(n, SixReads[bd], 1)

\* four_tuple_agent::update_net
four_update_net(n, bd, update_value) ==
    ApplyWrites(n, FourHits[bd], update_value)

\* six_tuple_agent::update_net
six_update_net(n, bd, update_value) ==
    ApplyWrites(n, SixHits[bd], update_value)

-----------------------------------------------------------------------------
(* open_episode, take_action, close_episode *)

\* the three trace vectors of an agent
Trace(boards, rewards, values) ==
    [episode_boards |-> boards, episode_rewards |-> rewards,
     episode_values |-> values]

\* four_tuple_agent::open_episode with  episode_values.clear()  left out
four_open_episode_KeepValues(tr) == Trace(<<>>, <<>>, tr.episode_values)

\* four_tuple_agent::open_episode
four_open_episode(tr) == Trace(<<>>, <<>>, <<>>)

\* six_tuple_agent::open_episode
six_open_episode(tr) == Trace(<<>>, <<>>, <<>>)

\* initial values of the locals of take_action
TakeActionLocals ==
    [best_reward |-> -1,
     best_action |-> -1,
     best_after_state_value |-> ToDouble(-1000),
     best_episode_after_state_value |-> ToDouble(-1000),
     best_after |-> EmptyBoard]

\* the loop body of four_tuple_agent::take_action with  >=  for  >
four_take_action_step_GreaterOrEqual(v, st, op, slid) ==
    LET reward == slid.reward
        after == slid.after
        after_state_value ==
            v[after] + ToDouble(reward)
    IN  IF reward = -1 THEN st
        ELSE IF after_state_value >= st.best_after_state_value
                    \/ st.best_reward = -1
        THEN [st EXCEPT !.best_after_state_value = after_state_value,
                        !.best_action = op,
                        !.best_reward = reward,
                        !.best_after = after]
        ELSE st

\* four_tuple_agent::take_action, one iteration of  for (int op : opcode):
\* the locals after it.  slid is what after.slide(op) returned on the copy
\* of b, and v[after] what calculate_state_value(after) returns on the
\* tables of the call
four_take_action_step(v, st, op, slid) ==
    LET reward == slid.reward
        after == slid.after
        after_state_value ==
            v[after] + ToDouble(reward)
    IN  IF reward = -1 THEN st
        ELSE IF after_state_value > st.best_after_state_value
                    \/ st.best_reward = -1
        THEN [st EXCEPT !.best_after_state_value = after_state_value,
                        !.best_action = op,
                        !.best_reward = reward,
                        !.best_after = after]
        ELSE st

\* four_tuple_agent::take_action, the loop from direction op on
RECURSIVE four_take_action_loop(_, _, _, _)
four_take_action_loop(v, s, op, st) ==
    IF op > 3 THEN st
    ELSE four_take_action_loop(v, s, op + 1,
                               four_take_action_step(v, st, op, s[op]))

\* four_tuple_agent::take_action after the loop: the trace afterwards and
\* the action returned (a direction, or -1 for the default action())
four_take_action_end(tr, st) ==
    IF st.best_reward # -1
    THEN [trace |->
            Trace(Append(tr.episode_boards, st.best_after),
                  Append(tr.episode_rewards, st.best_reward),
                  Append(tr.episode_values, ToInt(st.best_after_state_value))),
          ret |-> st.best_action]
    ELSE [trace |-> tr, ret |-> -1]

\* four_tuple_agent::take_action
four_take_action(v, tr, s) ==
    four_take_action_end(tr, four_take_action_loop(v, s, 0, TakeActionLocals))

\* six_tuple_agent::take_action, one iteration of  for (int op : opcode)
six_take_action_step(v, st, op, slid) ==
    LET reward == slid.reward
        after == slid.after
        episode_after_state_value == v[after]
        after_state_value == episode_after_state_value + ToDouble(reward)
    IN  IF reward = -1 THEN st
        ELSE IF after_state_value > st.best_after_state_value
                    \/ st.best_reward = -1
        THEN [st EXCEPT !.best_after_state_value = after_state_value,
                        !.best_action = op,
                        !.best_reward = reward,
                        !.best_after = after,
                        !.best_episode_after_state_value =
                            episode_after_state_value]
        ELSE st

\* six_tuple_agent::take_action, the loop from direction op on
RECURSIVE six_take_action_loop(_, _, _, _)
six_take_action_loop(v, s, op, st) ==
    IF op > 3 THEN st
    ELSE six_take_action_loop(v, s, op + 1,
                              six_take_action_step(v, st, op, s[op]))

\* six_tuple_agent::take_action after the loop, without the test
\* if (best_reward != -1)
six_take_action_end_PushAlways(tr, st) ==
    [trace |->
        Trace(Append(tr.episode_boards, st.best_after),
              Append(tr.episode_rewards, st.best_reward),
              Append(tr.episode_values,
                     ToInt(st.best_episode_after_state_value))),
     ret |-> st.best_action]

\* six_tuple_agent::take_action after the loop
six_take_action_end(tr, st) ==
    IF st.best_reward # -1
    THEN [trace |->
            Trace(Append(tr.episode_boards, st.best_after),
                  Append(tr.episode_rewards, st.best_reward),
                  Append(tr.episode_values,
                         ToInt(st.best_episode_after_state_value))),
          ret |-> st.best_action]
    ELSE [trace |-> tr, ret |-> -1]

\* six_tuple_agent::take_action
six_take_action(v, tr, s) ==
    six_take_action_end(tr, six_take_action_loop(v, s, 0, TakeActionLocals))

\* the loop of four_tuple_agent::close_episode with episode_rewards[i] for
\* episode_rewards[i+1]
RECURSIVE four_close_episode_loop_OwnReward(_, _, _, _, _)
four_close_episode_loop_OwnReward(n, al, tr, i, done) ==
    IF i < 0 THEN [net |-> n, updates |-> done]
    ELSE
        LET update_value ==
                al * (At0(tr.episode_values, i + 1)
                        + At0(tr.episode_rewards, i)
                        - At0(tr.episode_values, i))
        IN  four_close_episode_loop_OwnReward(
                four_update_net(n, At0(tr.episode_boards, i), update_value),
                al, tr, i - 1,
                Append(done, [i |-> i, update_value |-> update_value]))

\* four_tuple_agent::close_episode, the loop  for (i = len-1; i >= 0; i--):
\* the tables afterwards and the update_value of every iteration, in order
RECURSIVE four_close_episode_loop(_, _, _, _, _)
four_close_episode_loop(n, al, tr, i, done) ==
    IF i < 0 THEN [net |-> n, updates |-> done]
    ELSE
        LET update_value ==
                al * (At0(tr.episode_values, i + 1)
                        + At0(tr.episode_rewards, i + 1)
                        - At0(tr.episode_values, i))
        IN  four_close_episode_loop(
                four_update_net(n, At0(tr.episode_boards, i), update_value),
                al, tr, i - 1,
                Append(done, [i |-> i, update_value |-> update_value]))

\* four_tuple_agent::close_episode
four_close_episode(n, al, tr) ==
    LET pushed == Trace(tr.episode_boards,
                        Append(tr.episode_rewards, 0),
                        Append(tr.episode_values, 0))
        len == Len(pushed.episode_boards)
        looped == four_close_episode_loop(n, al, pushed, len - 1, <<>>)
    IN  [net |-> looped.net, trace |-> pushed, updates |-> looped.updates]

\* the loop of six_tuple_agent::close_episode with episode_rewards[i] for
\* episode_rewards[i+1]
RECURSIVE six_close_episode_loop_OwnReward(_, _, _, _, _)
six_close_episode_loop_OwnReward(n, al, tr, i, done) ==
    IF i < 0 THEN [net |-> n, updates |-> done]
    ELSE
        LET update_value ==
                al * (At0(tr.episode_values, i + 1)
                        + At0(tr.episode_rewards, i)
                        - At0(tr.episode_values, i))
        IN  six_close_episode_loop_OwnReward(
                six_update_net(n, At0(tr.episode_boards, i), update_value),
                al, tr, i - 1,
                Append(done, [i |-> i, update_value |-> update_value]))

\* six_tuple_agent::close_episode, the loop  for (i = len-1; i >= 0; i--)
RECURSIVE six_close_episode_loop(_, _, _, _, _)
six_close_episode_loop(n, al, tr, i, done) ==
    IF i < 0 THEN [net |-> n, updates |-> done]
    ELSE
        LET update_value ==
                al * (At0(tr.episode_values, i + 1)
                        + At0(tr.episode_rewards, i + 1)
                        - At0(tr.episode_values, i))
        IN  six_close_episode_loop(
                six_update_net(n, At0(tr.episode_boards, i), update_value),
                al, tr, i - 1,
                Append(done, [i |-> i, update_value |-> update_value]))

\* six_tuple_agent::close_episode with  episode_values.push_back(0)  left out
six_close_episode_NoValueSentinel(n, al, tr) ==
    LET pushed == Trace(tr.episode_boards,
                        Append(tr.episode_rewards, 0),
                        tr.episode_values)
        len == Len(pushed.episode_boards)
        looped == six_close_episode_loop(n, al,
                    Trace(pushed.episode_boards, pushed.episode_rewards,
                          Append(pushed.episode_values, 0)),
                    len - 1, <<>>)
    IN  [net |-> looped.net, trace |-> pushed, updates |-> looped.updates]

\* six_tuple_agent::close_episode with the loop started at len-2
six_close_episode_SkipLast(n, al, tr) ==
    LET pushed == Trace(tr.episode_boards,
                        Append(tr.episode_rewards, 0),
                        Append(tr.episode_values, 0))
        len == Len(pushed.episode_boards)
        looped == six_close_episode_loop(n, al, pushed, len - 2, <<>>)
    IN  [net |-> looped.net, trace |-> pushed, updates |-> looped.updates]

\* six_tuple_agent::close_episode
six_close_episode(n, al, tr) ==
    LET pushed == Trace(tr.episode_boards,
                        Append(tr.episode_rewards, 0),
                        Append(tr.episode_values, 0))
        len == Len(pushed.episode_boards)
        looped == six_close_episode_loop(n, al, pushed, len - 1, <<>>)
    IN  [net |-> looped.net, trace |-> pushed, updates |-> looped.updates]

-----------------------------------------------------------------------------
(* Weight files *)

\* shard length 2^(4 * arity) of a well-formed table for each class
ShardSize(knd) == IF knd = "four" THEN Pow2(16) ELSE Pow2(24)

\* The file system: a path names a file by the two numbers base and bump
\* (in 1/Unit).  The file holds one well-formed shard per shard of the class;
\* every entry is base, except that in shard 0 the entries at odd addresses
\* are base + bump.
\* a path that names no file that can be opened
NoSuchFile == [base |-> 0, bump |-> 0, absent |-> TRUE]

\* in.is_open() / out.is_open() after opening the file at path
is_open(path) == "absent" \notin DOMAIN path

FileContents(knd, path) ==
    [j \in 1..NumShards(knd) |->
        [size |-> ShardSize(knd),
         w |-> [a \in Tracked(knd, j - 1) |->
                    IF j = 1 /\ a % 2 = 1 THEN path.base + path.bump
                    ELSE path.base]]]

-----------------------------------------------------------------------------
(* Construction *)

\* one shard: weight(size), all entries zero
ZeroShard(knd, k, size) ==
    [size |-> size, w |-> [a \in {x \in Tracked(knd, k) : x < size} |-> 0]]

\* Text is a sequence of one-character strings.
DigitChars == <<"0", "1", "2", "3", "4", "5", "6", "7", "8", "9">>

\* std::isdigit(ch)
isdigit(ch) == \E d \in 1..10 : DigitChars[d] = ch

\* the value of the digit ch
DigitValue(ch) == (CHOOSE d \in 1..10 : DigitChars[d] = ch) - 1

\* weight_agent::init_weights,  for (char& ch : res) if (!isdigit(ch)) ch = ' '
Blanked(info) ==
    [j \in 1..Len(info) |-> IF isdigit(info[j]) THEN info[j] ELSE " "]

\* in >> size  once the blanks are skipped: the digits from pos on are
\* read into the number begun as acc; the result is the number and the
\* position after it
RECURSIVE ReadNumber(_, _, _)
ReadNumber(res, pos, acc) ==
    IF pos > Len(res) \/ ~isdigit(res[pos]) THEN [size |-> acc, pos |-> pos]
    ELSE ReadNumber(res, pos + 1, 10 * acc + DigitValue(res[pos]))

\* weight_agent::init_weights,  for (size_t size; in >> size; ...): the
\* sizes the stream yields from pos on; the extraction fails at the end
RECURSIVE ExtractSizes(_, _)
ExtractSizes(res, pos) ==
    IF pos > Len(res) THEN <<>>
    ELSE IF ~isdigit(res[pos]) THEN ExtractSizes(res, pos + 1)
    ELSE LET got == ReadNumber(res, pos, 0)
         IN  <<got.size>> \o ExtractSizes(res, got.pos)

\* weight_agent::init_weights: net.emplace_back(size) for every size read
\* from the text info
RECURSIVE EmplacedBack(_, _, _, _)
EmplacedBack(knd, n, sizes, j) ==
    IF j > Len(sizes) THEN n
    ELSE EmplacedBack(knd, Append(n, ZeroShard(knd, Len(n), sizes[j])),
                      sizes, j + 1)

\* weight_agent::init_weights with every shard put at the front of net
init_weights_AtFront(knd, n, info) ==
    LET sizes == ExtractSizes(Blanked(info), 1)
    IN  [j \in 1..Len(sizes) |->
            ZeroShard(knd, j - 1, sizes[Len(sizes) + 1 - j])] \o n

\* weight_agent::init_weights
init_weights(knd, n, info) ==
    EmplacedBack(knd, n, ExtractSizes(Blanked(info), 1), 1)

\* weight_agent::load_weights that goes on when the file does not open
load_weights_GoingOn(knd, n, path) == [net |-> n, exited |-> FALSE]

\* weight_agent::load_weights: std::exit(-1) when the file does not open,
\* before anything is read; otherwise net.resize(size) and every shard is
\* read from the file
load_weights(knd, n, path) ==
    IF ~is_open(path) THEN [net |-> n, exited |-> TRUE]
    ELSE [net |-> FileContents(knd, path), exited |-> FALSE]

\* weight_agent::weight_agent; exited tells that the process has ended
\* in the constructor
weight_agent(knd, m) ==
    LET n0 == <<>>
        n1 == IF "init" \in DOMAIN m THEN init_weights(knd, n0, m["init"]) ELSE n0
        loaded == IF "load" \in DOMAIN m THEN load_weights(knd, n1, m["load"])
                  ELSE [net |-> n1, exited |-> FALSE]
    IN  [net |-> loaded.net,
         alpha |-> IF "alpha" \in DOMAIN m /\ ~loaded.exited THEN m["alpha"]
                   ELSE Unit \div 80,
         exited |-> loaded.exited]

\* four_tuple_agent::four_tuple_agent
four_tuple_agent(m) == weight_agent("four", m)

\* six_tuple_agent::six_tuple_agent
six_tuple_agent(m) ==
    LET base == weight_agent("six", m)
    IN  IF base.exited THEN base ELSE [base EXCEPT !.alpha = Unit \div 320]

\* weight_agent::save_weights: std::exit(-1) when the file does not open;
\* otherwise the file holds the shards of net
save_weights(n, path) ==
    IF ~is_open(path) THEN [exited |-> TRUE, file |-> <<>>]
    ELSE [exited |-> FALSE, file |-> <<n>>]

-----------------------------------------------------------------------------
(* Configurations given to the constructors *)

\* the decimal digits of n
RECURSIVE Decimal(_)
Decimal(n) ==
    IF n < 10 THEN <<DigitChars[n + 1]>>
    ELSE Append(Decimal(n \div 10), DigitChars[(n % 10) + 1])

\* the text <size>,<size>,...,<size> of count sizes
RECURSIVE SizeList(_, _)
SizeList(size, count) ==
    IF count = 1 THEN Decimal(size)
    ELSE SizeList(size, count - 1) \o <<",">> \o Decimal(size)

\* init=<size>,<size>,... with one size per shard the class addresses
InitInfo(knd) == SizeList(ShardSize(knd), NumShards(knd))

\* the weight file of the lifecycle model: the estimate of a board is 1.5
\* or 0
Paths == {[base |-> 0, bump |-> 3 * (Unit \div 2)]}

\* weight files of the selection study: estimates that are fractional,
\* that differ by exactly one reward, and that lie below -1000
SelectPaths ==
    [base : {0, ToDouble(-130)}, bump : {0, Unit \div 2, Unit}]

\* learning rates given as alpha=<rate> (in 1/Unit)
AlphaArgs == {Unit \div 2}

\* a configuration as a function from the keys present to their values;
\* each argument is <<>> (key absent) or <<value>>
Args(init, load, al) ==
    [key \in (IF init = <<>> THEN {} ELSE {"init"})
                \cup (IF load = <<>> THEN {} ELSE {"load"})
                \cup (IF al = <<>> THEN {} ELSE {"alpha"}) |->
        IF key = "init" THEN init[1] ELSE IF key = "load" THEN load[1] ELSE al[1]]

AlphaOptions == {<<>>} \cup {<<al>> : al \in AlphaArgs}

Metas(knd) ==
    {Args(<<InitInfo(knd)>>, <<>>, al) : al \in AlphaOptions}
        \cup {Args(<<>>, <<f>>, al) : f \in Paths, al \in AlphaOptions}

SelectMetas(knd) == {Args(<<>>, <<f>>, <<>>) : f \in SelectPaths}

-----------------------------------------------------------------------------
(* The state machine *)

trace == Trace(episode_boards, episode_rewards, episode_values)

SetTrace(tr) ==
    /\ episode_boards' = tr.episode_boards
    /\ episode_rewards' = tr.episode_rewards
    /\ episode_values' = tr.episode_values

Called(name, ret, updates) == [name |-> name, ret |-> ret, updates |-> updates]

Constructed(knd, m, bd) ==
    LET ag == IF knd = "four" THEN four_tuple_agent(m) ELSE six_tuple_agent(m)
    IN  /\ kind = knd
        /\ meta = m
        /\ net = ag.net
        /\ alpha = ag.alpha
        /\ episode_boards = <<>>
        /\ episode_rewards = <<>>
        /\ episode_values = <<>>
        /\ b = bd
        /\ call = IF ag.exited THEN Called("exit", -1, <<>>)
                  ELSE Called("construct", -1, <<>>)
        /\ life = [phase |-> IF ag.exited THEN "exited" ELSE "fresh",
                   k |-> 0, moves |-> 0, closes |-> 0]

Init ==
    /\ \E knd \in {"four", "six"} : \E m \in Metas(knd) :
            Constructed(knd, m, BoardA)
    /\ slides = <<>>

\* agent.open_episode(), on an agent of a running process
OpenEpisode ==
    /\ life.phase \in {"fresh", "open", "closed"}
    /\ SetTrace(IF kind = "four" THEN four_open_episode(trace)
                ELSE six_open_episode(trace))
    /\ call' = Called("open_episode", -1, <<>>)
    /\ life' = [life EXCEPT !.phase = "open", !.k = 0]
    /\ UNCHANGED <<kind, meta, net, alpha, b, slides>>

\* calculate_state_value on the tables n, for every board of S (built
\* entry by entry, so that each estimate is computed once)
RECURSIVE EstimatesOver(_, _, _)
EstimatesOver(knd, n, S) ==
    IF S = {} THEN <<>>
    ELSE LET bd == CHOOSE x \in S : TRUE
         IN  (bd :> (IF knd = "four" THEN four_calculate_state_value(n, bd)
                     ELSE six_calculate_state_value(n, bd)))
                @@ EstimatesOver(knd, n, S \ {bd})

Estimates(knd, n) == EstimatesOver(knd, n, Boards)

\* the locals take_action can hold after its loop on board bd, over every
\* combination of slide results: the loop body applied direction by direction
RECURSIVE LocalsAfterLoop(_, _, _, _)
LocalsAfterLoop(knd, v, bd, op) ==
    IF op < 0 THEN {TakeActionLocals}
    ELSE {IF knd = "four" THEN four_take_action_step(v, st, op, slid)
          ELSE six_take_action_step(v, st, op, slid) :
            st \in LocalsAfterLoop(knd, v, bd, op - 1),
            slid \in SlideOutcomes(bd)}

\* take_action that also trains on the caller's board
TakeActionEnds_UpdatingNet(st) ==
    /\ life.phase \in {"fresh", "open"}
    /\ life.moves < MaxMoves
    /\ life.closes < MaxEpisodes
    /\ LET res == IF kind = "four" THEN four_take_action_end(trace, st)
                  ELSE six_take_action_end(trace, st)
       IN  /\ SetTrace(res.trace)
           /\ call' = Called("take_action", res.ret, <<>>)
           /\ life' = IF res.ret = -1 THEN life
                      ELSE [life EXCEPT !.k = @ + 1, !.moves = @ + 1]
    /\ net' = IF kind = "four" THEN four_update_net(net, b, Unit)
              ELSE six_update_net(net, b, Unit)
    /\ UNCHANGED <<kind, meta, alpha, b, slides>>

\* the effect of take_action once its loop has left the locals st; the
\* caller asks for moves before or during an episode, not after its close
TakeActionEnds(st) ==
    /\ life.phase \in {"fresh", "open"}
    /\ life.moves < MaxMoves
    /\ life.closes < MaxEpisodes
    /\ LET res == IF kind = "four" THEN four_take_action_end(trace, st)
                  ELSE six_take_action_end(trace, st)
       IN  /\ SetTrace(res.trace)
           /\ call' = Called("take_action", res.ret, <<>>)
           /\ life' = IF res.ret = -1 THEN life
                      ELSE [life EXCEPT !.k = @ + 1, !.moves = @ + 1]
    /\ UNCHANGED <<kind, meta, net, alpha, b, slides>>

\* agent.take_action(b), for every combination of results board::slide can
\* return in the four directions
TakeAction ==
    \E st \in LocalsAfterLoop(kind, Estimates(kind, net), b, 3) :
        TakeActionEnds(st)

\* agent.close_episode(), called once per episode after open_episode
CloseEpisode ==
    /\ life.phase = "open"
    /\ life.closes < MaxEpisodes
    /\ LET res == IF kind = "four" THEN four_close_episode(net, alpha, trace)
                  ELSE six_close_episode(net, alpha, trace)
       IN  /\ net' = res.net
           /\ SetTrace(res.trace)
           /\ call' = Called("close_episode", -1, res.updates)
    /\ life' = [life EXCEPT !.phase = "closed", !.closes = @ + 1]
    /\ UNCHANGED <<kind, meta, alpha, b, slides>>

\* the game loop applies the accepted move and the placer's tile: the
\* caller's board becomes another one
SetBoard ==
    /\ call.name = "take_action"
    /\ call.ret # -1
    /\ \E bd \in Boards \ {b} : b' = bd
    /\ call' = Called("caller", -1, <<>>)
    /\ UNCHANGED <<kind, meta, net, alpha, episode_boards, episode_rewards,
                   episode_values, slides, life>>

Next == OpenEpisode \/ TakeAction \/ CloseEpisode \/ SetBoard

Spec == Init /\ [][Next]_vars

-----------------------------------------------------------------------------
(* Selection study: take_action as a function of the tables and of what     *)
(* board::slide returns.  The tables come from a weight file, the slide     *)
(* results of the four directions are fixed up front in slides, and the     *)
(* freshly constructed agent is asked for one move.                         *)

InitSelect ==
    /\ \E knd \in {"four", "six"} : \E m \in SelectMetas(knd) :
            Constructed(knd, m, BoardA)
    /\ slides \in SlideInputs(BoardA)

\* agent.take_action(b) where board::slide returns slides[op] in direction op
TakeActionOnSlides ==
    /\ call.name = "construct"
    /\ TakeActionEnds(
            IF kind = "four"
            THEN four_take_action_loop(Estimates(kind, net), slides, 0,
                                       TakeActionLocals)
            ELSE six_take_action_loop(Estimates(kind, net), slides, 0,
                                      TakeActionLocals))

NextSelect == TakeActionOnSlides

SpecSelect == InitSelect /\ [][NextSelect]_vars

-----------------------------------------------------------------------------
(* Construction study: the agent is constructed from an init text or a     *)
(* weight file that may not open, lives through episodes, and is           *)
(* destroyed, which saves the tables when a save path is configured.       *)

\* a configuration m with save=<path> added
WithSave(m, path) == ("save" :> path) @@ m

\* texts given as init=<text>
InitTexts ==
    { <<"1", "6", ",", "1", "6">>,
      <<"1", "6", ",", "2", "5", "6">>,
      <<"2", "5", "6", ",", "1", "6">>,
      <<"4">>,
      <<"1", ",", "2", ",", "3">> }

ConstructMetas(knd) ==
    {Args(<<t>>, <<>>, <<>>) : t \in InitTexts}
        \cup {Args(<<InitInfo(knd)>>, <<>>, <<>>),
              WithSave(Args(<<InitInfo(knd)>>, <<>>, <<>>), NoSuchFile),
              Args(<<>>, <<NoSuchFile>>, <<>>),
              Args(<<<<"1", "6", ",", "1", "6">>>>, <<NoSuchFile>>, <<>>)}
        \cup {WithSave(Args(<<>>, <<f>>, <<>>), f) : f \in Paths}

InitConstruct ==
    /\ \E knd \in {"four", "six"} : \E m \in ConstructMetas(knd) :
            Constructed(knd, m, BoardA)
    /\ slides = <<>>

\* every table entry that take_action, on any board of the model, reads
\* through net[shard][index] exists
InBounds(knd, n) ==
    \A p \in AddressedPairs(knd) :
        /\ p[1] < Len(n)
        /\ p[2] < At0(n, p[1]).size

\* agent.take_action(b): on tables that hold every entry the boards
\* address, for every combination of slide results; on other tables, for
\* a board on which no direction is legal (the tables are not read then)
TakeActionInBounds ==
    IF InBounds(kind, net) THEN TakeAction
    ELSE TakeActionEnds(TakeActionLocals)

\* ~weight_agent(): save_weights(meta["save"]) when save is configured;
\* the updates field of call holds what the file then holds
Destroy ==
    /\ life.phase \in {"fresh", "open", "closed"}
    /\ LET saved == IF "save" \in DOMAIN meta
                    THEN save_weights(net, meta["save"])
                    ELSE [exited |-> FALSE, file |-> <<>>]
       IN  /\ call' = IF saved.exited THEN Called("exit", -1, <<>>)
                      ELSE Called("~weight_agent", -1, saved.file)
           /\ life' = [life EXCEPT !.phase = IF saved.exited THEN "exited"
                                             ELSE "destroyed"]
    /\ UNCHANGED <<kind, meta, net, alpha, episode_boards, episode_rewards,
                   episode_values, b, slides>>

NextConstruct ==
    OpenEpisode \/ TakeActionInBounds \/ CloseEpisode \/ SetBoard \/ Destroy

SpecConstruct == InitConstruct /\ [][NextConstruct]_vars

-----------------------------------------------------------------------------
(* Addressing study: the (shard, index) pairs calculate_state_value and    *)
(* update_net address, as a function of the board.                          *)

\* a board of sixteen different cell values
BaseBoard == <<1, 2, 3, 4, 5, 6, 7, 8, 9, 10, 11, 12, 13, 14, 15, 0>>

\* cell values put at the cells 0, 5 and 15 of BaseBoard
CellValues == {0, 8, 15}

AddressBoards ==
    {[p \in 1..16 |-> IF p = 1 THEN v[1]
                      ELSE IF p = 6 THEN v[2]
                      ELSE IF p = 16 THEN v[3]
                      ELSE BaseBoard[p]] : v \in [1..3 -> CellValues]}

InitAddress ==
    /\ \E knd \in {"four", "six"} : \E f \in Paths : \E bd \in AddressBoards :
            Constructed(knd, Args(<<>>, <<f>>, <<>>), bd)
    /\ slides = <<>>

\* the pairs calculate_state_value(bd) reads and update_net(bd, .) writes
Addressed(knd, bd) ==
    [board |-> bd,
     reads |-> IF knd = "four" THEN Computed(four_value_reads(bd), 8)
               ELSE Computed(six_value_reads(bd), 32),
     writes |-> IF knd = "four" THEN Computed(four_update_writes(bd), 8)
                ELSE Computed(six_update_writes(bd), 32)]

\* the function bd |-> Addressed(knd, bd) on the boards of S, every
\* entry computed once
RECURSIVE AddressedOver(_, _)
AddressedOver(knd, S) ==
    IF S = {} THEN <<>>
    ELSE LET bd == CHOOSE x \in S : TRUE
         IN  (bd :> Addressed(knd, bd)) @@ AddressedOver(knd, S \ {bd})

FourAddressed == AddressedOver("four", AddressBoards)
SixAddressed == AddressedOver("six", AddressBoards)

\* the agent addresses its tables for the board b and for another board;
\* the updates field of call holds the pairs addressed for each
ComputeAddresses ==
    /\ call.name = "construct"
    /\ \E bd \in AddressBoards :
            call' = Called("addresses", -1,
                           IF kind = "four"
                           THEN <<FourAddressed[b], FourAddressed[bd]>>
                           ELSE <<SixAddressed[b], SixAddressed[bd]>>)
    /\ UNCHANGED <<kind, meta, net, alpha, episode_boards, episode_rewards,
                   episode_values, b, slides, life>>

NextAddress == ComputeAddresses

SpecAddress == InitAddress /\ [][NextAddress]_vars

-----------------------------------------------------------------------------
(* Properties *)

\* C1: once open_episode has been called, after exactly k accepted
\* take_action calls (and any number of rejected ones) and before
\* close_episode the three trace sequences all have length k; after the
\* close_episode of that episode episode_rewards and episode_values have
\* length k + 1 and episode_boards still has length k.
C1_TraceLengths ==
    /\ life.phase = "open" =>
            /\ Len(episode_boards) = life.k
            /\ Len(episode_rewards) = life.k
            /\ Len(episode_values) = life.k
    /\ life.phase = "closed" =>
            /\ Len(episode_boards) = life.k
            /\ Len(episode_rewards) = life.k + 1
            /\ Len(episode_values) = life.k + 1

\* an episode of two accepted moves has been closed
C1_Witness ==
    /\ life.phase = "closed"
    /\ life.k = 2
    /\ call.name = "close_episode"

-----------------------------------------------------------------------------
(* take_action on given slide results (SpecSelect) *)

\* the directions in which board::slide reports a legal move
LegalDirections == {op \in 0..3 : slides[op].reward # Illegal}

\* calculate_state_value of the board direction op slides to
SlidValue(op) == Estimates(kind, net)[slides[op].after]

\* the evaluation reward + value(afterstate) of direction op
Evaluation(op) == ToDouble(slides[op].reward) + SlidValue(op)

\* take_action has returned a direction
Accepted == call.name = "take_action" /\ call.ret # -1

\* C2: if slide returns the illegal sentinel -1 in all four directions,
\* take_action returns the default action (no direction) and leaves the
\* three trace sequences as they were.
C2_NoLegalDirectionRejects ==
    [][(call'.name = "take_action" /\ LegalDirections = {}) =>
            /\ call'.ret = -1
            /\ trace' = trace]_vars

\* take_action has been called on a board with no legal direction
C2_Witness ==
    /\ call.name = "take_action"
    /\ \A op \in 0..3 : slides[op].reward = Illegal
    /\ call.ret = -1

\* C3: when take_action accepts a move, the entry appended to
\* episode_values is the value of the winning afterstate without the
\* reward (taken to the element type of episode_values).
C3_StoredValueExcludesReward ==
    Accepted =>
        episode_values[Len(episode_values)] = ToInt(SlidValue(call.ret))

\* C4: the entry recorded in episode_values for an accepted move equals
\* the number calculate_state_value returned for the afterstate, with no
\* rounding or truncation in between (six_tuple_agent).
C4_StoredValueIsTheEstimate ==
    (Accepted /\ kind = "six") =>
        ToDouble(episode_values[Len(episode_values)]) = SlidValue(call.ret)

\* C5: take_action returns no direction when none is legal, and otherwise
\* a legal direction whose evaluation reward + value(afterstate) is maximal
\* over the legal directions, the lowest-numbered one among those of
\* maximal evaluation.
C5_GreedyLowestMaximum ==
    call.name = "take_action" =>
        IF LegalDirections = {} THEN call.ret = -1
        ELSE /\ call.ret \in LegalDirections
             /\ \A op \in LegalDirections :
                    /\ Evaluation(op) <= Evaluation(call.ret)
                    /\ Evaluation(op) = Evaluation(call.ret) => call.ret <= op

\* two legal directions with different slide results tie at the maximum,
\* which lies below the initial best of -1000, and the lower one is returned
C5_Witness ==
    /\ Accepted
    /\ \E op \in LegalDirections :
            /\ call.ret < op
            /\ slides[op] # slides[call.ret]
            /\ Evaluation(op) = Evaluation(call.ret)
    /\ \A op \in LegalDirections : Evaluation(op) <= Evaluation(call.ret)
    /\ Evaluation(call.ret) < ToDouble(-1000)

-----------------------------------------------------------------------------
(* The episode lifecycle (Spec) *)

\* the (shard, index) pairs that are active for board bd: one per
\* (variant, tuple) combination, as the value estimator addresses them
ActiveEntries(bd) ==
    LET reads == IF kind = "four" THEN FourReads[bd] ELSE SixReads[bd]
    IN  {reads[j] : j \in 1..Len(reads)}

\* the sum of tds[i] over the positions i..Len(boards) whose board has
\* the pair p among its active entries
RECURSIVE TdSum(_, _, _, _)
TdSum(p, boards, tds, i) ==
    IF i > Len(boards) THEN 0
    ELSE (IF p \in ActiveEntries(boards[i]) THEN tds[i] ELSE 0)
            + TdSum(p, boards, tds, i + 1)

\* the tables n with tds[i] added to every active entry of boards[i]
Trained(n, boards, tds) ==
    [j \in 1..Len(n) |->
        [size |-> n[j].size,
         w |-> [a \in DOMAIN n[j].w |->
                    n[j].w[a] + TdSum(<<j - 1, a>>, boards, tds, 1)]]]

\* C6: close_episode on a trace of n recorded moves appends reward 0 and
\* value 0, then visits the positions n-1 down to 0, each once and none
\* else, adding alpha * (value_seq[i+1] + reward_seq[i+1] - value_seq[i])
\* to every active entry of board_seq[i]; for the last recorded move that
\* is alpha * (0 + 0 - value_seq[n-1]).
C6_BackwardPass ==
    [][call'.name = "close_episode" =>
        LET n == Len(episode_boards)
            td == [i \in 1..n |->
                    alpha * (episode_values'[i + 1] + episode_rewards'[i + 1]
                                - episode_values'[i])]
        IN  /\ episode_rewards' = Append(episode_rewards, 0)
            /\ episode_values' = Append(episode_values, 0)
            /\ episode_boards' = episode_boards
            /\ Len(call'.updates) = n
            /\ \A j \in 1..n :
                    /\ call'.updates[j].i = n - j
                    /\ call'.updates[j].update_value = td[n - j + 1]
            /\ n > 0 =>
                    call'.updates[1].update_value
                        = alpha * (0 + 0 - episode_values[n])
            /\ net' = Trained(net, episode_boards, td)]_vars

\* rate 0.5, one recorded move with value 2 and reward 1: the update is -1.0
C6_Witness ==
    /\ call.name = "close_episode"
    /\ alpha = Unit \div 2
    /\ episode_values = <<2, 0>>
    /\ episode_rewards = <<1, 0>>
    /\ call.updates = <<[i |-> 0, update_value |-> -Unit]>>

\* C7: take_action leaves every table entry and the caller's board
\* unchanged; of open_episode, take_action and close_episode only
\* close_episode changes table entries, and the trace changes in these
\* three operations only.
C7_Frame ==
    [][/\ call'.name = "take_action" => (net' = net /\ b' = b)
       /\ net' # net => call'.name = "close_episode"
       /\ trace' # trace =>
            call'.name \in {"open_episode", "take_action", "close_episode"}
      ]_vars

\* a move has been accepted on tables that an earlier episode has trained
C7_Witness ==
    /\ Accepted
    /\ life.closes >= 1
    /\ net # (IF kind = "four" THEN four_tuple_agent(meta)
              ELSE six_tuple_agent(meta)).net

\* C8: open_episode leaves all three trace sequences empty and the tables
\* unchanged, and open_episode on the state it leaves yields that state
\* again.
C8_OpenEpisodeIdempotent ==
    [][call'.name = "open_episode" =>
        /\ trace' = Trace(<<>>, <<>>, <<>>)
        /\ (IF kind = "four" THEN four_open_episode(trace')
            ELSE six_open_episode(trace')) = trace'
        /\ net' = net
        /\ alpha' = alpha]_vars

\* open_episode has been called after a closed episode with recorded moves
C8_Witness ==
    /\ call.name = "open_episode"
    /\ life.closes >= 1
    /\ life.moves >= 1
    /\ trace = Trace(<<>>, <<>>, <<>>)

\* amounts update_net is asked to add (in 1/Unit)
Deltas == {-Unit, 3}

\* C9: for every board the (shard, index) pairs calculate_state_value
\* reads are the pairs update_net writes, each pair once, one per shard,
\* so that update_net(b, d) changes the estimate of b by exactly N * d
\* with N = 8 for four_tuple_agent and 32 for six_tuple_agent.
C9_SameAddressing ==
    \A bd \in Boards :
        LET reads == IF kind = "four" THEN FourReads[bd] ELSE SixReads[bd]
            writes == IF kind = "four" THEN FourWrites[bd] ELSE SixWrites[bd]
            N == IF kind = "four" THEN 8 ELSE 32
            value(n) == IF kind = "four" THEN four_calculate_state_value(n, bd)
                        ELSE six_calculate_state_value(n, bd)
            updated(d) == IF kind = "four" THEN four_update_net(net, bd, d)
                          ELSE six_update_net(net, bd, d)
        IN  /\ Len(reads) = N
            /\ Len(writes) = N
            /\ Cardinality({reads[j] : j \in 1..N}) = N
            /\ Cardinality({writes[j] : j \in 1..N}) = N
            /\ {reads[j] : j \in 1..N} = {writes[j] : j \in 1..N}
            /\ \A d \in Deltas : value(updated(d)) = value(net) + N * d

\* close_episode of a six_tuple_agent has added a nonzero amount to the
\* 32 entries of the recorded board, whose estimate moved by 32 times it
C9_Witness ==
    /\ kind = "six"
    /\ call.name = "close_episode"
    /\ Len(call.updates) = 1
    /\ call.updates[1].update_value # 0
    /\ six_calculate_state_value(net, episode_boards[1])
        = six_calculate_state_value(six_tuple_agent(meta).net,
                                    episode_boards[1])
            + 32 * call.updates[1].update_value

\* C10: when the configuration has an alpha key, every update of
\* close_episode is made at that configured rate.
C10_ConfiguredRateIsUsed ==
    ("alpha" \in DOMAIN meta /\ call.name = "close_episode") =>
        \A j \in 1..Len(call.updates) :
            LET i == call.updates[j].i
            IN  call.updates[j].update_value
                    = meta["alpha"] * (episode_values[i + 2]
                                        + episode_rewards[i + 2]
                                        - episode_values[i + 1])

\* tr2 is tr1 with one entry appended to each of the three sequences
GrownByOne(tr1, tr2) ==
    /\ Len(tr2.episode_boards) = Len(tr1.episode_boards) + 1
    /\ SubSeq(tr2.episode_boards, 1, Len(tr1.episode_boards))
            = tr1.episode_boards
    /\ Len(tr2.episode_rewards) = Len(tr1.episode_rewards) + 1
    /\ SubSeq(tr2.episode_rewards, 1, Len(tr1.episode_rewards))
            = tr1.episode_rewards
    /\ Len(tr2.episode_values) = Len(tr1.episode_values) + 1
    /\ SubSeq(tr2.episode_values, 1, Len(tr1.episode_values))
            = tr1.episode_values

\* C11: in the lifecycle open_episode, take_action ..., close_episode,
\* repeated, open_episode leaves no recorded entry behind, every accepted
\* move adds one entry to the trace and a rejected one none, and
\* close_episode finds exactly the life.k entries recorded since the
\* open_episode of its episode and makes exactly one update for each of
\* them: no entry of an earlier episode is there to be read.
C11_OneUpdatePerMoveOfTheEpisode ==
    [][/\ call'.name = "open_episode" => trace' = Trace(<<>>, <<>>, <<>>)
       /\ call'.name = "take_action" =>
            IF call'.ret = -1 THEN trace' = trace
            ELSE GrownByOne(trace, trace')
       /\ call'.name = "close_episode" =>
            /\ life.phase = "open"
            /\ Len(episode_boards) = life.k
            /\ Len(episode_rewards) = life.k
            /\ Len(episode_values) = life.k
            /\ Len(call'.updates) = life.k
            /\ {call'.updates[j].i : j \in 1..Len(call'.updates)}
                    = 0..(life.k - 1)
      ]_vars

\* the second episode, of one accepted move, has been closed after a
\* first episode of one accepted move: one update was made
C11_Witness ==
    /\ call.name = "close_episode"
    /\ life.closes = 2
    /\ life.moves = 2
    /\ life.k = 1
    /\ Len(call.updates) = 1

-----------------------------------------------------------------------------
(* Construction and destruction (SpecConstruct) *)

\* the number the digits text[from..to] write in decimal
RECURSIVE DecimalValue(_, _, _)
DecimalValue(text, from, to) ==
    IF to < from THEN 0
    ELSE 10 * DecimalValue(text, from, to - 1) + DigitValue(text[to])

\* the sizes a text of decimal numbers separated by commas lists, from
\* position pos on
RECURSIVE SizesListed(_, _)
SizesListed(text, pos) ==
    LET commas == {q \in pos..Len(text) : text[q] = ","}
    IN  IF commas = {} THEN <<DecimalValue(text, pos, Len(text))>>
        ELSE LET comma == CHOOSE q \in commas : \A r \in commas : q <= r
             IN  <<DecimalValue(text, pos, comma - 1)>>
                    \o SizesListed(text, comma + 1)

\* the configuration has init and no load
InitOnly == "init" \in DOMAIN meta /\ "load" \notin DOMAIN meta

\* C12: an agent initialized with a list of n shard sizes has, at every
\* moment of its life, exactly n shards with the listed lengths in the
\* listed order; all their entries are zero after construction; and no
\* open_episode, take_action or close_episode (nor the destructor)
\* changes the number of shards or the length of a shard, however the
\* tables were initialized.
C12_ShardsAsListed ==
    /\ [](InitOnly =>
            LET sizes == SizesListed(meta["init"], 1)
            IN  /\ Len(net) = Len(sizes)
                /\ \A j \in 1..Len(sizes) : net[j].size = sizes[j])
    /\ (InitOnly =>
            \A j \in 1..Len(net) : \A a \in DOMAIN net[j].w : net[j].w[a] = 0)
    /\ [][/\ Len(net') = Len(net)
          /\ \A j \in 1..Len(net) : net'[j].size = net[j].size]_vars

\* an agent configured with init=16,16 has lived through an episode and
\* holds two shards of length 16
C12_Witness ==
    /\ InitOnly
    /\ meta["init"] = <<"1", "6", ",", "1", "6">>
    /\ life.closes = 1
    /\ Len(net) = 2
    /\ net[1].size = 16
    /\ net[2].size = 16

\* the configuration names a weight file to load that does not open
LoadFails == "load" \in DOMAIN meta /\ ~is_open(meta["load"])

\* the configuration names a file to save to that does not open
SaveFails == "save" \in DOMAIN meta /\ ~is_open(meta["save"])

\* C13: when the file named by load does not open, the process has exited
\* with status -1 in the constructor, with the table store as it was
\* before load_weights (what init_weights made, or empty) and an empty
\* trace; after an exit nothing happens any more, so that no episode
\* operation runs on such an agent.  The destructor ends in an exit,
\* with nothing written, exactly when the file named by save does not
\* open.
C13_OpenFailureIsFatal ==
    /\ [](LoadFails =>
            /\ life.phase = "exited"
            /\ call = Called("exit", -1, <<>>)
            /\ net = (IF "init" \in DOMAIN meta
                      THEN init_weights(kind, <<>>, meta["init"]) ELSE <<>>)
            /\ trace = Trace(<<>>, <<>>, <<>>))
    /\ [][life.phase # "exited"]_vars
    /\ [][/\ (life'.phase = "exited") => (SaveFails /\ call'.updates = <<>>)
          /\ (life'.phase = "destroyed") => ~SaveFails]_vars

\* init=16,16 load=<a file that does not open>: the process has exited and
\* the two shards init_weights made are all the store holds
C13_Witness ==
    /\ LoadFails
    /\ life.phase = "exited"
    /\ "init" \in DOMAIN meta
    /\ Len(net) = 2

-----------------------------------------------------------------------------
(* Addressing (SpecAddress) *)

\* the board bd turned clockwise k times, cell by cell: after one turn
\* the cell in row r, column c holds what was in row 3 - c, column r
Turned(bd, k) ==
    [p \in 1..16 |->
        LET r == (p - 1) \div 4
            c == (p - 1) % 4
        IN  IF k = 0 THEN bd[4 * r + c + 1]
            ELSE IF k = 1 THEN bd[4 * (3 - c) + r + 1]
            ELSE IF k = 2 THEN bd[4 * (3 - r) + (3 - c) + 1]
            ELSE bd[4 * c + (3 - r) + 1]]

\* the board bd reflected horizontally: row r, column c holds what was in
\* row r, column 3 - c
Mirrored(bd) ==
    [p \in 1..16 |->
        LET r == (p - 1) \div 4
            c == (p - 1) % 4
        IN  bd[4 * r + (3 - c) + 1]]

\* the sum over j of cellvalue(positions[j]) << (4 * j), from j on
\* (positions and j count from 0; positions is a sequence)
RECURSIVE PackedSum(_, _, _)
PackedSum(bd, positions, j) ==
    IF j >= Len(positions) THEN 0
    ELSE bd[positions[j + 1] + 1] * Pow2(4 * j) + PackedSum(bd, positions, j + 1)

\* the positions of the tuple behind entry n of the pairs of a board: for
\* four_tuple_agent row i and column i alternate, for six_tuple_agent the
\* first four entries are the base tuples on the board itself
TuplePositions(knd, n) ==
    IF knd = "six" THEN tuple_index[n]
    ELSE LET i == (n - 1) \div 2
         IN  IF n % 2 = 1 THEN <<4 * i, 4 * i + 1, 4 * i + 2, 4 * i + 3>>
             ELSE <<i, i + 4, i + 8, i + 12>>

\* the entries of the pairs of a board that address the board itself
OwnEntries(knd) == IF knd = "six" THEN 1..4 ELSE 1..8

\* C14: six_tuple_agent addresses, in calculate_state_value and in
\* update_net alike, shard 4k+i by base tuple i on the board turned
\* clockwise k times, and shard 16+4k+i by base tuple i on the
\* horizontally reflected original board turned clockwise k times.
C14_CanonicalVariantOrder ==
    (kind = "six" /\ call.name = "addresses") =>
        \A x \in 1..2 : \A k \in 0..3 : \A i \in 0..3 :
            LET rec == call.updates[x]
                plain == <<4 * k + i,
                           PackedSum(Turned(rec.board, k),
                                     tuple_index[i + 1], 0)>>
                mirrored == <<16 + 4 * k + i,
                              PackedSum(Turned(Mirrored(rec.board), k),
                                        tuple_index[i + 1], 0)>>
            IN  /\ rec.reads[4 * k + i + 1] = plain
                /\ rec.writes[4 * k + i + 1] = plain
                /\ rec.reads[16 + 4 * k + i + 1] = mirrored
                /\ rec.writes[16 + 4 * k + i + 1] = mirrored

\* a board for which the reflection of the original and the reflection of
\* the board turned three times give different addresses in shard 16
C14_Witness ==
    /\ kind = "six"
    /\ call.name = "addresses"
    /\ call.updates[1].reads[17][1] = 16
    /\ call.updates[1].reads[17][2]
            # PackedSum(Mirrored(Turned(call.updates[1].board, 3)),
                        tuple_index[1], 0)

\* C15: for a tuple of k positions and a board with cell values in 0..15
\* the address computed is the sum over j of cellvalue(pos_j) << (4*j),
\* lies in 0 .. 2^(4k) - 1, and two boards get the same address for a
\* tuple exactly when they agree on all positions of the tuple.
C15_AddressPacksTheCells ==
    call.name = "addresses" =>
        \A n \in OwnEntries(kind) :
            LET positions == TuplePositions(kind, n)
                one == call.updates[1]
                other == call.updates[2]
            IN  /\ \A rec \in {one, other} :
                    /\ rec.reads[n][2] = PackedSum(rec.board, positions, 0)
                    /\ rec.reads[n][2] >= 0
                    /\ rec.reads[n][2] <= Pow2(4 * Len(positions)) - 1
                /\ (one.reads[n][2] = other.reads[n][2])
                    <=> (\A j \in 1..Len(positions) :
                            one.board[positions[j] + 1]
                                = other.board[positions[j] + 1])

\* two different boards that agree on the positions of a tuple holding a
\* cell of value 15, and so get the same address for it
C15_Witness ==
    /\ call.name = "addresses"
    /\ call.updates[1].board # call.updates[2].board
    /\ \E n \in OwnEntries(kind) :
            /\ call.updates[1].reads[n][2] = call.updates[2].reads[n][2]
            /\ \E j \in 1..Len(TuplePositions(kind, n)) :
                    call.updates[1].board[TuplePositions(kind, n)[j] + 1] = 15

-----------------------------------------------------------------------------
(* What close_episode depends on (Spec) *)

\* rewards put in the place of the first recorded reward
OtherRewards == {0, 1, 7}

\* amounts by which every table entry is shifted (in 1/Unit)
Shifts == {Unit, -5}

\* the tables n with d added to every entry
Shifted(n, d) ==
    [j \in 1..Len(n) |->
        [size |-> n[j].size, w |-> [a \in DOMAIN n[j].w |-> n[j].w[a] + d]]]

\* close_episode of the agent's class on tables n and trace tr
CloseOf(n, tr) ==
    IF kind = "four" THEN four_close_episode(n, alpha, tr)
    ELSE six_close_episode(n, alpha, tr)

\* C16: what close_episode adds to the tables is a function of the trace
\* and the learning rate: on tables with other contents it makes the same
\* updates and adds the same amounts to the same entries; and it does not
\* depend on the first recorded reward: with another reward there it
\* makes the same updates and leaves the same tables.
C16_UpdatesDependOnTraceOnly ==
    [][call'.name = "close_episode" =>
        /\ \A d \in Shifts :
            LET shifted == CloseOf(Shifted(net, d), trace)
            IN  /\ shifted.updates = call'.updates
                /\ shifted.net = Shifted(net', d)
        /\ Len(episode_rewards) >= 1 =>
            \A r \in OtherRewards :
                LET other == CloseOf(net,
                                Trace(episode_boards,
                                      [episode_rewards EXCEPT ![1] = r],
                                      episode_values))
                IN  /\ other.updates = call'.updates
                    /\ other.net = net'
      ]_vars

\* an episode whose first recorded reward is 1 has been closed with an
\* update that is not zero
C16_Witness ==
    /\ call.name = "close_episode"
    /\ Len(episode_boards) >= 1
    /\ episode_rewards[1] = 1
    /\ \E j \in 1..Len(call.updates) : call.updates[j].update_value # 0

====
